---- MODULE Spec2Model ----
(***************************************************************************)
(* Durable workflow core of the campaign builder (api-python):             *)
(*   campaign_start / regenerate / status HTTP handlers, the              *)
(*   CampaignOrchestration orchestrator and its four activities, the blob  *)
(*   container that holds status.json / evidence_log.json / campaign.json, *)
(*   and the durable substrate's instance table.                          *)
(* Python None is the empty tuple; a dict is a function on its keys; a     *)
(* str is a TLA+ string; json.dumps/json.loads are one-to-one on the       *)
(* values stored here, so a blob's content is the value that was dumped.   *)
(***************************************************************************)
EXTENDS Integers, Sequences, FiniteSets, TLC

\* ------------------------------------------------------------------ bounds
MaxDay == 2         \* wall-clock days the model runs through
MaxStarts == 1      \* campaign runs the substrate accepts
MaxRuns == 2        \* campaign runs where a run id is started again
MaxRegens == 2      \* regeneration instances the substrate accepts
MaxRedeliver == 1   \* re-invocations of one activity (at-least-once)

None == <<>>

\* Python's "not v" for a str, dict, list or None: TLA+ identifies the empty
\* string, the empty function and the empty tuple
Falsy(v) == None = v

\* ------------------------------------------------------- str / dict helpers
endswith(s, suf) ==
    /\ Len(s) >= Len(suf)
    /\ SubSeq(s, Len(s) - Len(suf) + 1, Len(s)) = suf

RECURSIVE lstrip(_)
lstrip(s) == IF s = "" THEN "" ELSE IF Head(s) = " " THEN lstrip(Tail(s)) ELSE s

RECURSIVE rstrip(_)
rstrip(s) ==
    IF s = "" THEN ""
    ELSE IF SubSeq(s, Len(s), Len(s)) = " " THEN rstrip(SubSeq(s, 1, Len(s) - 1)) ELSE s

strip(s) == rstrip(lstrip(s))

UpperChars == "ABCDEFGHIJKLMNOPQRSTUVWXYZ"
LowerChars == "abcdefghijklmnopqrstuvwxyz"

lowerChar(c) ==
    IF \E i \in 1..Len(UpperChars) : SubSeq(UpperChars, i, i) = c
    THEN LET i == CHOOSE j \in 1..Len(UpperChars) : SubSeq(UpperChars, j, j) = c
         IN  SubSeq(LowerChars, i, i)
    ELSE c

RECURSIVE lower(_)
lower(s) == IF s = "" THEN "" ELSE lowerChar(Head(s)) \o lower(Tail(s))

\* code-point order of the characters blob names are made of
CharOrder == " '-./0123456789ABCDEFGHIJKLMNOPQRSTUVWXYZ_abcdefghijklmnopqrstuvwxyz"

ord(c) == CHOOSE i \in 1..Len(CharOrder) : SubSeq(CharOrder, i, i) = c

RECURSIVE strLess(_, _)
strLess(a, b) ==
    IF b = "" THEN FALSE
    ELSE IF a = "" THEN TRUE
    ELSE IF Head(a) = Head(b) THEN strLess(Tail(a), Tail(b))
    ELSE ord(Head(a)) < ord(Head(b))

\* dict.get(k) for str / dict valued keys
get(d, k) == IF k \in DOMAIN d THEN d[k] ELSE None

\* ------------------------------------------------------------------ clock
\* strftime of the days the model covers (January 2026)
strftimeY(day) == "2026"
strftimeM(day) == "01"
strftimeD(day) == IF day < 10 THEN "0" \o ToString(day) ELSE ToString(day)
strftimeYMD(day) == strftimeY(day) \o "-" \o strftimeM(day) \o "-" \o strftimeD(day)

\* ------------------------------------------------------------------ state
VARIABLES
    env,         \* process environment: UPLOADS_SAS_URL, CAMPAIGN_RESULTS_CONTAINER
    wallDay,     \* the day the wall clock showed when it was last read
    starts,      \* number of campaign runs the substrate has created
    regens,      \* number of regeneration instances it has created
    engine,      \* substrate instance table: instance id -> status record
    orch,        \* per instance: replay history of the orchestration body
    task,        \* per instance: the outstanding activity work item
    store,       \* blob container: blob name -> content
    response     \* the last HTTP response a handler produced

vars == <<env, wallDay, starts, regens, engine, orch, task, store, response>>

\* ---------------------------------------------------------- storage helpers
\* faulty variant: the container setting is not looked at
_get_container_client_ok_sas_only(e) == e.UPLOADS_SAS_URL # ""

\* _get_container_client raises RuntimeError unless both settings are set
_get_container_client_ok(e) ==
    /\ e.UPLOADS_SAS_URL # ""
    /\ e.CAMPAIGN_RESULTS_CONTAINER # ""

\* the exception _get_container_client raises: the SAS URL is looked at first
_get_container_client_error(e) ==
    IF e.UPLOADS_SAS_URL = ""
    THEN "RuntimeError: UPLOADS_SAS_URL is not set"
    ELSE "RuntimeError: CAMPAIGN_RESULTS_CONTAINER is not set"

\* upload_blob(name=blob_path, overwrite=True)
_upload_json(s, blob_path, data) == (blob_path :> data) @@ s

_status_blob_path(prefix) == prefix \o "status.json"

_evidence_blob_path(prefix) == prefix \o "evidence_log.json"

_campaign_blob_path(prefix) == prefix \o "campaign.json"

\* faulty variant: every stage gets a record of its own (a log of transitions)
_write_status_appends(s, prefix, run_id, state, page, row_count) ==
    _upload_json(s, prefix \o state \o ".status.json",
                 [runId |-> run_id,
                  state |-> state,
                  input |-> [rowCount |-> row_count,
                             page |-> IF Falsy(page) THEN "" ELSE page]])

_write_status(s, prefix, run_id, state, page, row_count) ==
    _upload_json(s, _status_blob_path(prefix),
                 [runId |-> run_id,
                  state |-> state,
                  input |-> [rowCount |-> row_count,
                             page |-> IF Falsy(page) THEN "" ELSE page]])

IGNORED_COLUMNS == <<"AdopterProfile", "TopConnectivity">>

\* -------------------------------------------------------------- activities
ActivityNames ==
    <<"validate_input_activity", "evidence_builder_activity",
      "campaign_draft_activity", "validator_activity">>

input_proof(input) ==
    [run_id |-> input.run_id,
     csv_sha256 |-> IF Falsy(input.csv_sha256) THEN "unknown" ELSE input.csv_sha256,
     row_count |-> input.row_count,
     filters |-> input.filters,
     ignored_columns_confirmed |-> IGNORED_COLUMNS]

\* the list evidence_builder_activity builds; today is datetime.utcnow()
evidence_log(today) ==
    <<[id |-> "ev-001", publisher |-> "Ofcom", title |-> "SME adoption trends 2025",
       date |-> strftimeYMD(today), url |-> "https://example.org/ofcom-sme-trends",
       excerpt |-> "Indicators point to increased UC adoption among UK SMEs."],
      [id |-> "ev-002", publisher |-> "ONS", title |-> "UK business demography highlights",
       date |-> strftimeYMD(today), url |-> "https://example.org/ons-business-demography",
       excerpt |-> "Active enterprise growth centered in digital and services sectors."]>>

\* the dict campaign_draft_activity uploads; the four literal sections are
\* constants of the source and are kept as their headline / subject / script
campaign(input) ==
    [executive_summary |-> "Executive summary for page '" \o input.page
                           \o "'. Placeholder draft from the skeleton pipeline.",
     landing_page |-> [headline |-> "Grow Faster with Inside Track",
                       cta |-> "Book a discovery call"],
     emails |-> <<[subject |-> "How UK tech sellers are winning share from the big telcos"],
                  [subject |-> "A 6-month plan to increase response rates"]>>,
     sales_enablement |-> [one_pager |-> "Inside Track overview: problem, approach, proof-points, outcomes, CTA."],
     evidence_log |-> input.evidence_log,
     input_proof |-> input_proof(input),
     meta |-> [tone_profile |-> "professional", persona_focus |-> "UK tech decision-maker",
               evidence_window_months |-> 6, compliance_footer |-> TRUE]]

\* faulty variant: every activity returns after its first write
NumWrites_single(name) == 1

\* number of blob writes each activity performs before it returns
NumWrites(name) == IF name = "validate_input_activity" THEN 1 ELSE 2

validate_input_activity(s, input, k) ==
    _write_status(s, input.prefix, input.run_id, "ValidatingInput", input.page, input.row_count)

\* faulty variant: the evidence is returned and never uploaded
evidence_builder_activity_unsaved(s, input, k, today) ==
    _write_status(s, input.prefix, input.run_id, "EvidenceBuilder", input.page, input.row_count)

evidence_builder_activity(s, input, k, today) ==
    IF k = 1
    THEN _write_status(s, input.prefix, input.run_id, "EvidenceBuilder", input.page, input.row_count)
    ELSE _upload_json(s, _evidence_blob_path(input.prefix), evidence_log(today))

campaign_draft_activity(s, input, k) ==
    IF k = 1
    THEN _write_status(s, input.prefix, input.run_id, "DraftCampaign", input.page, input.row_count)
    ELSE _upload_json(s, _campaign_blob_path(input.prefix), campaign(input))

\* faulty variant: the second write repeats QualityGate
validator_activity_stuck(s, input, k) ==
    _write_status(s, input.prefix, input.run_id, "QualityGate", input.page, input.row_count)

validator_activity(s, input, k) ==
    IF k = 1
    THEN _write_status(s, input.prefix, input.run_id, "QualityGate", input.page, input.row_count)
    ELSE _write_status(s, input.prefix, input.run_id, "Completed", input.page, input.row_count)

\* the store after the k-th write of the activity
ActivityWrite(name, s, input, k, today) ==
    CASE name = "validate_input_activity"   -> validate_input_activity(s, input, k)
      [] name = "evidence_builder_activity" -> evidence_builder_activity(s, input, k, today)
      [] name = "campaign_draft_activity"   -> campaign_draft_activity(s, input, k)
      [] name = "validator_activity"        -> validator_activity(s, input, k)

\* the value the activity returns
ActivityReturn(name, input, today) ==
    CASE name = "validate_input_activity"   -> [ok |-> TRUE, input_proof |-> input_proof(input)]
      [] name = "evidence_builder_activity" -> [evidence_log |-> evidence_log(today)]
      [] name = "campaign_draft_activity"   -> [ok |-> TRUE]
      [] name = "validator_activity"        -> [ok |-> TRUE]

\* ----------------------------------------------------------- orchestrator
\* faulty variant: the prefix ends at the day, without the run id
OrchestrationLocals_without_run_id(instance_id, input_data, now) ==
    LET page == IF Falsy(get(input_data, "page"))
                THEN "default" ELSE input_data.page
    IN  [run_id |-> instance_id,
         page |-> page,
         row_count |-> IF "rowCount" \in DOMAIN input_data THEN input_data.rowCount ELSE 0,
         filters |-> get(input_data, "filters"),
         csv_sha256 |-> get(input_data, "csv_sha256"),
         company |-> get(input_data, "company"),
         prefix |-> "results/campaign/" \o page \o "/" \o strftimeY(now) \o "/"
                    \o strftimeM(now) \o "/" \o strftimeD(now) \o "/"]

\* faulty variant: the folder date is read from the wall clock in the body
OrchestrationLocals_utcnow(instance_id, input_data, now) ==
    LET page == IF Falsy(get(input_data, "page"))
                THEN "default" ELSE input_data.page
    IN  [run_id |-> instance_id,
         page |-> page,
         row_count |-> IF "rowCount" \in DOMAIN input_data THEN input_data.rowCount ELSE 0,
         filters |-> get(input_data, "filters"),
         csv_sha256 |-> get(input_data, "csv_sha256"),
         company |-> get(input_data, "company"),
         prefix |-> "results/campaign/" \o page \o "/" \o strftimeY(wallDay) \o "/"
                    \o strftimeM(wallDay) \o "/" \o strftimeD(wallDay) \o "/"
                    \o instance_id \o "/"]

\* the locals CampaignOrchestration computes before its first yield; now is
\* context.current_utc_datetime, the recorded time of the first episode
OrchestrationLocals(instance_id, input_data, now) ==
    LET page == IF Falsy(get(input_data, "page"))
                THEN "default" ELSE input_data.page
    IN  [run_id |-> instance_id,
         page |-> page,
         row_count |-> IF "rowCount" \in DOMAIN input_data THEN input_data.rowCount ELSE 0,
         filters |-> get(input_data, "filters"),
         csv_sha256 |-> get(input_data, "csv_sha256"),
         company |-> get(input_data, "company"),
         prefix |-> "results/campaign/" \o page \o "/" \o strftimeY(now) \o "/"
                    \o strftimeM(now) \o "/" \o strftimeD(now) \o "/" \o instance_id \o "/"]

\* faulty variant: the result of evidence_builder_activity is dropped and
\* the draft is called without it
CallInput_without_evidence(k, L, evidence) ==
    CASE k = 1 -> [prefix |-> L.prefix, run_id |-> L.run_id, page |-> L.page,
                   row_count |-> L.row_count, filters |-> L.filters,
                   csv_sha256 |-> L.csv_sha256, company |-> L.company]
      [] k = 3 -> [prefix |-> L.prefix, run_id |-> L.run_id, page |-> L.page,
                   row_count |-> L.row_count, evidence_log |-> <<>>,
                   filters |-> L.filters, csv_sha256 |-> L.csv_sha256,
                   company |-> L.company]
      [] OTHER -> [prefix |-> L.prefix, run_id |-> L.run_id, page |-> L.page,
                   row_count |-> L.row_count, company |-> L.company]

\* the input of the k-th call_activity; evidence is the recorded result of
\* evidence_builder_activity ("or {}" when it is falsy)
CallInput(k, L, evidence) ==
    CASE k = 1 -> [prefix |-> L.prefix, run_id |-> L.run_id, page |-> L.page,
                   row_count |-> L.row_count, filters |-> L.filters,
                   csv_sha256 |-> L.csv_sha256, company |-> L.company]
      [] k = 2 -> [prefix |-> L.prefix, run_id |-> L.run_id, page |-> L.page,
                   row_count |-> L.row_count, company |-> L.company]
      [] k = 3 -> [prefix |-> L.prefix, run_id |-> L.run_id, page |-> L.page,
                   row_count |-> L.row_count,
                   evidence_log |-> IF "evidence_log" \in DOMAIN evidence
                                    THEN evidence.evidence_log ELSE <<>>,
                   filters |-> L.filters, csv_sha256 |-> L.csv_sha256,
                   company |-> L.company]
      [] k = 4 -> [prefix |-> L.prefix, run_id |-> L.run_id, page |-> L.page,
                   row_count |-> L.row_count, company |-> L.company]

\* faulty variant: every call_activity names the first activity
NewTask_first_again(k, L, evidence) ==
    [name |-> ActivityNames[1], input |-> CallInput(1, L, evidence),
     apc |-> 0, st |-> "queued", result |-> None, attempts |-> 0, firstDone |-> None,
     error |-> ""]

\* the work item context.call_activity puts on the queue
NewTask(k, L, evidence) ==
    [name |-> ActivityNames[k], input |-> CallInput(k, L, evidence),
     apc |-> 0, st |-> "queued", result |-> None, attempts |-> 0, firstDone |-> None,
     error |-> ""]

\* faulty variant: the validator's result alone is returned
OrchestrationOutput_result_only(L, result) == result

\* what the orchestration returns and the custom status it sets
OrchestrationOutput(L, result) == [runId |-> L.run_id, prefix |-> L.prefix, result |-> result]

TerminalCustomStatus(L) == [state |-> "Completed", runId |-> L.run_id]

\* -------------------------------------------------------------- substrate
InFlight(id) ==
    /\ id \in DOMAIN engine
    /\ engine[id].runtimeStatus \in {"Pending", "Running"}

\* the id the substrate assigns when start_new gets instance_id=None
NewGuid == "auto" \o ToString(starts + 1)

\* faulty variant: the requested id is dropped and the substrate assigns one
start_new_assigned(name, id, client_input) ==
    /\ engine' = (NewGuid :> [name |-> name, input |-> client_input,
                              runtimeStatus |-> "Pending", customStatus |-> None,
                              output |-> None]) @@ engine
    /\ orch' = (NewGuid :> [pc |-> 0, now |-> 0, evidence |-> None]) @@ orch
    /\ task' = (NewGuid :> None) @@ task

\* client.start_new: a fresh Pending instance under the id.  On an id that is
\* in flight the substrate, depending on its configuration, either raises or
\* replaces the instance; the handlers below take both outcomes
start_new(name, id, client_input) ==
    /\ engine' = (id :> [name |-> name, input |-> client_input,
                         runtimeStatus |-> "Pending", customStatus |-> None,
                         output |-> None]) @@ engine
    /\ orch' = (id :> [pc |-> 0, now |-> 0, evidence |-> None]) @@ orch
    /\ task' = (id :> None) @@ task

\* client.get_status: None when the substrate has no such instance
get_status(id) == IF id \in DOMAIN engine THEN engine[id] ELSE None

\* ------------------------------------------------------- request payloads
RequestedRunIds == {"r1"}

\* JSON bodies of POST campaign/start; an absent key is absent from the dict
StartBodies ==
    {[page |-> "connectivity", rowCount |-> 120],
     [runId |-> "r1"]}

\* bodies of POST campaign/regenerate
RegenBodies ==
    {[runId |-> "r1", section |-> "landing"],
     [runId |-> " r1", section |-> "Landing "],
     [runId |-> "", section |-> "landing"],
     [runId |-> "r1", section |-> "bogus"]}

\* ids a poller asks GET campaign/status for
StatusIds == {"", "nope"} \cup RequestedRunIds \cup DOMAIN engine

\* ----------------------------------------------------------- campaign_start
\* int(v) of a JSON string: surrounding blanks are dropped, decimal digits
\* are read, anything else raises ValueError
DecimalDigits == <<"0", "1", "2", "3", "4", "5", "6", "7", "8", "9">>

IsDecimal(s) ==
    /\ s # ""
    /\ \A i \in 1..Len(s) : \E d \in 1..Len(DecimalDigits) : DecimalDigits[d] = SubSeq(s, i, i)

RECURSIVE int(_)
int(s) ==
    IF s = "" THEN 0
    ELSE 10 * int(SubSeq(s, 1, Len(s) - 1))
         + (CHOOSE d \in 1..Len(DecimalDigits) : DecimalDigits[d] = SubSeq(s, Len(s), Len(s))) - 1

\* a record field holds values of one kind: a rowCount sent as a JSON number
\* is the body's rowCount, one sent as a JSON string is its rowCount_str.
\* int(body.get("rowCount") or 0) raises on a string that is no integer
rowCount_raises(body) ==
    /\ "rowCount_str" \in DOMAIN body
    /\ body.rowCount_str # ""
    /\ ~IsDecimal(strip(body.rowCount_str))

rowCount_int(body) ==
    IF "rowCount_str" \in DOMAIN body
    THEN int(strip(body.rowCount_str))
    ELSE IF "rowCount" \in DOMAIN body THEN body.rowCount ELSE 0

\* the substrate refuses an instance id that holds a path separator
ValidInstanceId(id) == \A i \in 1..Len(id) : SubSeq(id, i, i) # "/"

campaign_start(body, max) ==
    LET page == IF Falsy(get(body, "page"))
                THEN "default" ELSE body.page
        row_count == rowCount_int(body)
        requested_run_id == get(body, "runId")
        instance_id == IF Falsy(requested_run_id) THEN NewGuid ELSE requested_run_id
        client_input == [page |-> page, rowCount |-> row_count,
                         filters |-> get(body, "filters"),
                         csv_sha256 |-> get(body, "csv_sha256")]
    IN  \/ \* int() raises; or start_new raises: the instance already exists
           \* and is running, or the id is one the substrate does not accept
           /\ \/ rowCount_raises(body)
              \/ InFlight(instance_id)
              \/ ~ValidInstanceId(instance_id)
           /\ response' = [handler |-> "campaign_start", req |-> body, status_code |-> 500]
           /\ UNCHANGED <<starts, regens, engine, orch, task>>
        \/ \* start_new creates the instance, replacing any under that id
           /\ starts < max
           /\ ~rowCount_raises(body)
           /\ ValidInstanceId(instance_id)
           /\ starts' = starts + 1
           /\ regens' = regens
           /\ start_new("CampaignOrchestration", instance_id, client_input)
           /\ response' = [handler |-> "campaign_start", req |-> body, status_code |-> 200,
                           body |-> [ok |-> TRUE, runId |-> instance_id]]

Start(body) ==
    /\ campaign_start(body, MaxStarts)
    /\ UNCHANGED <<env, wallDay, store>>

\* --------------------------------------------------------------- regenerate
allowed == {"landing", "emails", "sales", "overview"}

StrOrEmpty(body, k) == IF Falsy(get(body, k)) THEN "" ELSE body[k]

\* faulty variant: the section is left out of the id
regen_id_without_section(run_id, section) == run_id \o "-regen"

\* faulty variant: every request gets an id of its own
regen_id_fresh(run_id, section) ==
    run_id \o "-regen-" \o section \o "-" \o ToString(regens)

regen_id(run_id, section) == run_id \o "-regen-" \o section

\* faulty variant: rejects only when both inputs are bad
regenerate_rejects_both(run_id, section) == Falsy(run_id) /\ section \notin allowed

regenerate_rejects(run_id, section) == Falsy(run_id) \/ section \notin allowed

regenerate(body) ==
    LET run_id == strip(StrOrEmpty(body, "runId"))
        section == lower(strip(StrOrEmpty(body, "section")))
        tone0 == lower(strip(IF StrOrEmpty(body, "tone") # "" THEN body.tone
                             ELSE StrOrEmpty(body, "toneOverride")))
        tone == IF tone0 = "" THEN None ELSE tone0
        payload == [runId |-> run_id, section |-> section, toneOverride |-> tone]
    IN  IF regenerate_rejects(run_id, section)
        THEN /\ response' = [handler |-> "regenerate", req |-> body, status_code |-> 400]
             /\ UNCHANGED <<starts, regens, engine, orch, task>>
        ELSE \/ \* start_new raises: an instance with this id is in flight
                /\ InFlight(regen_id(run_id, section))
                /\ response' = [handler |-> "regenerate", req |-> body, status_code |-> 500]
                /\ UNCHANGED <<starts, regens, engine, orch, task>>
             \/ \* start_new creates the instance, replacing any under that id
                /\ regens < MaxRegens
                /\ regens' = regens + 1
                /\ starts' = starts
                /\ start_new("RegenerateSectionOrchestration", regen_id(run_id, section), payload)
                /\ response' = [handler |-> "regenerate", req |-> body,
                                instance_id |-> regen_id(run_id, section)]

Regenerate(body) ==
    /\ regenerate(body)
    /\ UNCHANGED <<env, wallDay, store>>

\* ------------------------------------------------------------------- status
\* faulty variant: Running is shown as EvidenceBuilder
_map_runtime_running_early(runtime_status) ==
    IF Falsy(runtime_status) THEN "ValidatingInput"
    ELSE IF runtime_status = "Pending" THEN "ValidatingInput"
    ELSE IF runtime_status = "Running" THEN "EvidenceBuilder"
    ELSE IF runtime_status = "Completed" THEN "Completed"
    ELSE IF runtime_status \in {"Failed", "Terminated"} THEN "Failed"
    ELSE "ValidatingInput"

_map_runtime_to_state(runtime_status) ==
    IF Falsy(runtime_status) THEN "ValidatingInput"
    ELSE IF runtime_status = "Pending" THEN "ValidatingInput"
    ELSE IF runtime_status = "Running" THEN "DraftCampaign"
    ELSE IF runtime_status = "Completed" THEN "Completed"
    ELSE IF runtime_status \in {"Failed", "Terminated"} THEN "Failed"
    ELSE "ValidatingInput"

state_from_runtime(custom_status, runtime_status) ==
    IF "state" \in DOMAIN custom_status
    THEN custom_status.state
    ELSE _map_runtime_to_state(runtime_status)

\* faulty variant: the dict is built without runId
RuntimeResp_without_runId(run_id, durable) ==
    [state |-> state_from_runtime(get(durable, "customStatus"), get(durable, "runtimeStatus")),
     runtime |-> [runtimeStatus |-> get(durable, "runtimeStatus"),
                  customStatus |-> get(durable, "customStatus")]]

\* the dict status builds from the substrate's answer alone (createdTime and
\* lastUpdatedTime are copied through from the substrate and not modelled)
RuntimeResp(run_id, durable) ==
    LET runtime_status == get(durable, "runtimeStatus")
        custom_status == get(durable, "customStatus")
    IN  [runId |-> run_id,
         state |-> state_from_runtime(custom_status, runtime_status),
         runtime |-> [runtimeStatus |-> runtime_status,
                      customStatus |-> custom_status]]

\* the names list_blobs(name_starts_with="results/campaign/") yields that end
\* in /<run_id>/<filename>
Matches(s, run_id, filename) ==
    {n \in DOMAIN s : /\ SubSeq(n, 1, Len("results/campaign/")) = "results/campaign/"
                      /\ endswith(n, "/" \o run_id \o "/" \o filename)}

\* the first match in listing (name) order, None when there is none
Chosen(s, run_id, filename) ==
    IF Matches(s, run_id, filename) = {} THEN None
    ELSE CHOOSE n \in Matches(s, run_id, filename) :
             \A m \in Matches(s, run_id, filename) : ~strLess(m, n)

\* _blob_service() and os.environ["CAMPAIGN_RESULTS_CONTAINER"] of the status
\* handler raise (and the blob part is skipped) unless both settings are set
_blob_service_ok(e) ==
    /\ e.UPLOADS_SAS_URL # ""
    /\ e.CAMPAIGN_RESULTS_CONTAINER # ""

\* data.setdefault("runId", run_id)
setdefault_runId(data, run_id) == data @@ [runId |-> run_id]

\* faulty variant: keys already in resp are kept
update_keeps_resp(resp, data) == resp @@ data

\* resp.update(data)
update(resp, data) == data @@ resp

status(run_id) ==
    IF Falsy(run_id)
    THEN [status_code |-> 400, body |-> [text |-> "Missing runId"]]
    ELSE LET resp == RuntimeResp(run_id, get_status(run_id))
             chosen == Chosen(store, run_id, "status.json")
         IN  [status_code |-> 200,
              body |-> IF _blob_service_ok(env) /\ ~Falsy(chosen)
                       THEN update(resp, setdefault_runId(store[chosen], run_id))
                       ELSE resp]

Status(run_id) ==
    /\ response' = [handler |-> "status", req |-> run_id] @@ status(run_id)
    /\ UNCHANGED <<env, wallDay, starts, regens, engine, orch, task, store>>

\* faulty variant: each replay takes the day from the wall clock
Locals_wall_clock(id) == OrchestrationLocals(id, engine[id].input, wallDay)

\* ------------------------------------------------- orchestration episodes
Locals(id) == OrchestrationLocals(id, engine[id].input, orch[id].now)

\* first episode: the body runs up to the first call_activity
OrchestratorStart(id) ==
    /\ id \in DOMAIN engine
    /\ engine[id].name = "CampaignOrchestration"
    /\ engine[id].runtimeStatus = "Pending"
    /\ \E now \in wallDay..MaxDay :
          /\ wallDay' = now
          /\ orch' = [orch EXCEPT ![id] = [pc |-> 1, now |-> now, evidence |-> None]]
          /\ task' = [task EXCEPT ![id] =
                         NewTask(1, OrchestrationLocals(id, engine[id].input, now), None)]
    /\ engine' = [engine EXCEPT ![id].runtimeStatus = "Running"]
    /\ UNCHANGED <<env, starts, regens, store, response>>

\* an activity's result reaches the orchestration: the body is replayed up to
\* the next call_activity, or to its return
OrchestratorResume(id) ==
    /\ id \in DOMAIN engine
    /\ engine[id].runtimeStatus = "Running"
    /\ ~Falsy(task[id])
    /\ task[id].st = "done"
    /\ LET k == orch[id].pc
           evidence == IF k = 2 THEN task[id].result ELSE orch[id].evidence
       IN  IF k < 4
           THEN /\ orch' = [orch EXCEPT ![id].pc = k + 1, ![id].evidence = evidence]
                /\ task' = [task EXCEPT ![id] = NewTask(k + 1, Locals(id), evidence)]
                /\ engine' = engine
           ELSE /\ orch' = [orch EXCEPT ![id].pc = 5]
                /\ task' = [task EXCEPT ![id] = None]
                /\ engine' = [engine EXCEPT
                       ![id].runtimeStatus = "Completed",
                       ![id].customStatus = TerminalCustomStatus(Locals(id)),
                       ![id].output = OrchestrationOutput(Locals(id), task[id].result)]
    /\ UNCHANGED <<env, wallDay, starts, regens, store, response>>

\* faulty variant: the orchestration catches the exception and goes on
OrchestratorFail_swallows(id) ==
    /\ id \in DOMAIN engine
    /\ engine[id].runtimeStatus = "Running"
    /\ ~Falsy(task[id])
    /\ task[id].st = "failed"
    /\ task' = [task EXCEPT ![id].st = "done", ![id].result = [ok |-> FALSE]]
    /\ UNCHANGED <<env, wallDay, starts, regens, engine, orch, store, response>>

\* an activity's exception reaches the orchestration, which does not catch it
OrchestratorFail(id) ==
    /\ id \in DOMAIN engine
    /\ engine[id].runtimeStatus = "Running"
    /\ ~Falsy(task[id])
    /\ task[id].st = "failed"
    /\ engine' = [engine EXCEPT
           ![id].runtimeStatus = "Failed",
           ![id].output = "Activity function '" \o task[id].name \o "' failed: "
                        \o task[id].error]
    /\ task' = [task EXCEPT ![id] = None]
    /\ UNCHANGED <<env, wallDay, starts, regens, orch, store, response>>

\* ------------------------------------------------------ activity execution
\* the blobs under a run's prefix
Under(s, prefix) ==
    [n \in {m \in DOMAIN s : /\ Len(m) >= Len(prefix)
                               /\ SubSeq(m, 1, Len(prefix)) = prefix} |-> s[n]]

\* the activity performs its next blob write; the last one is followed by
\* its return.  Every activity starts with _write_status, which raises when
\* a storage setting is missing.  evidence_builder_activity reads the wall
\* clock (datetime.utcnow) before its second write
ReadsClock(name, k) == name = "evidence_builder_activity" /\ k = 2

ActivityStep(id) ==
    /\ id \in DOMAIN task
    /\ ~Falsy(task[id])
    /\ task[id].st = "queued"
    /\ LET t == task[id]
           k == t.apc + 1
       IN  IF ~_get_container_client_ok(env)
           THEN /\ task' = [task EXCEPT ![id].st = "failed",
                                        ![id].error = _get_container_client_error(env)]
                /\ UNCHANGED <<store, wallDay>>
           ELSE \E today \in wallDay..(IF ReadsClock(t.name, k) THEN MaxDay ELSE wallDay) :
                LET s2 == ActivityWrite(t.name, store, t.input, k, today)
                IN  /\ wallDay' = today
                    /\ store' = s2
                    /\ task' = [task EXCEPT ![id] =
                           IF k < NumWrites(t.name)
                           THEN [t EXCEPT !.apc = k]
                           ELSE [t EXCEPT !.apc = k, !.st = "done",
                                          !.result = ActivityReturn(t.name, t.input, today),
                                          !.firstDone = IF Falsy(t.firstDone)
                                                        THEN Under(s2, t.input.prefix)
                                                        ELSE t.firstDone]]
    /\ UNCHANGED <<env, starts, regens, engine, orch, response>>

\* upload_blob raises (storage fault): the activity fails
ActivityRaises(id) ==
    /\ id \in DOMAIN task
    /\ ~Falsy(task[id])
    /\ task[id].st = "queued"
    /\ _get_container_client_ok(env)
    /\ task' = [task EXCEPT ![id].st = "failed", ![id].error = "HttpResponseError"]
    /\ UNCHANGED <<env, wallDay, starts, regens, engine, orch, store, response>>

\* at-least-once: the worker is lost after some of the activity's side
\* effects and before its result is acknowledged; the substrate invokes the
\* activity again with the same input
Redeliver(id) ==
    /\ id \in DOMAIN task
    /\ ~Falsy(task[id])
    /\ task[id].st \in {"queued", "done"}
    /\ task[id].apc > 0
    /\ task[id].attempts < MaxRedeliver
    /\ task' = [task EXCEPT ![id].apc = 0, ![id].st = "queued", ![id].result = None,
                            ![id].attempts = task[id].attempts + 1]
    /\ UNCHANGED <<env, wallDay, starts, regens, engine, orch, store, response>>

\* the substrate terminates an instance; an activity in flight is not cancelled
Terminate(id) ==
    /\ InFlight(id)
    /\ engine' = [engine EXCEPT ![id].runtimeStatus = "Terminated"]
    /\ UNCHANGED <<env, wallDay, starts, regens, orch, task, store, response>>

\* ------------------------------------------------------------ specification
Envs ==
    {[UPLOADS_SAS_URL |-> "https://acct.blob.core.windows.net/?sv=1", CAMPAIGN_RESULTS_CONTAINER |-> "results"],
     [UPLOADS_SAS_URL |-> "", CAMPAIGN_RESULTS_CONTAINER |-> "results"],
     [UPLOADS_SAS_URL |-> "https://acct.blob.core.windows.net/?sv=1", CAMPAIGN_RESULTS_CONTAINER |-> ""]}

Init ==
    /\ env \in Envs
    /\ wallDay = 1
    /\ starts = 0
    /\ regens = 0
    /\ engine = <<>>
    /\ orch = <<>>
    /\ task = <<>>
    /\ store = <<>>
    /\ response = None

Next ==
    \/ \E body \in StartBodies : Start(body)
    \/ \E body \in RegenBodies : Regenerate(body)
    \/ \E run_id \in StatusIds : Status(run_id)
    \/ \E id \in DOMAIN engine : OrchestratorStart(id)
    \/ \E id \in DOMAIN engine : OrchestratorResume(id)
    \/ \E id \in DOMAIN engine : OrchestratorFail(id)
    \/ \E id \in DOMAIN engine : ActivityStep(id)
    \/ \E id \in DOMAIN engine : ActivityRaises(id)
    \/ \E id \in DOMAIN engine : Redeliver(id)
    \/ \E id \in DOMAIN engine : Terminate(id)

Spec == Init /\ [][Next]_vars

\* ------------------------------------------- campaign_status (function_app)
\* the substrate-only status endpoint: 404 when get_status returns None
campaign_status(run_id) ==
    IF Falsy(run_id)
    THEN [status_code |-> 400, body |-> [error |-> "Missing runId"]]
    ELSE IF Falsy(get_status(run_id))
    THEN [status_code |-> 404, body |-> [error |-> "NotFound"]]
    ELSE [status_code |-> 200,
          body |-> [instanceId |-> run_id,
                    runtimeStatus |-> get_status(run_id).runtimeStatus,
                    customStatus |-> get_status(run_id).customStatus,
                    output |-> get_status(run_id).output]]

\* ------------------------------------------------ the run without failures
\* ids a campaign run can have
RunIds == RequestedRunIds \cup {"auto" \o ToString(i) : i \in 1..MaxStarts}

LiveNext ==
    \/ \E body \in StartBodies : Start(body)
    \/ \E run_id \in StatusIds : Status(run_id)
    \/ \E id \in DOMAIN engine : OrchestratorStart(id)
    \/ \E id \in DOMAIN engine : OrchestratorResume(id)
    \/ \E id \in DOMAIN engine : OrchestratorFail(id)
    \/ \E id \in DOMAIN engine : ActivityStep(id)
    \/ \E id \in DOMAIN engine : Redeliver(id)

\* the substrate runs every runnable episode and every queued work item
LiveSpec ==
    /\ Init
    /\ [][LiveNext]_vars
    /\ \A id \in RunIds : WF_vars(OrchestratorStart(id))
    /\ \A id \in RunIds : WF_vars(OrchestratorResume(id))
    /\ \A id \in RunIds : WF_vars(OrchestratorFail(id))
    /\ \A id \in RunIds : WF_vars(ActivityStep(id))

\* ------------------------------------------- the status merge on its inputs
MergeEngines ==
    {<<>>} \cup
    {("r1" :> [name |-> "CampaignOrchestration", input |-> [page |-> "default", rowCount |-> 0],
               runtimeStatus |-> rs, customStatus |-> cs, output |-> None]) :
        rs \in {"Pending", "Running", "Completed", "Failed", "Terminated", "Suspended"},
        cs \in {None, [state |-> "Completed", runId |-> "r1"], [progress |-> "half"]}}

Stages == <<"ValidatingInput", "EvidenceBuilder", "DraftCampaign", "QualityGate", "Completed">>

\* a status.json as _write_status leaves it, and as a writer that omits or
\* changes runId leaves it
MergeRecords ==
    {[state |-> Stages[i], input |-> [rowCount |-> 0, page |-> "default"]] : i \in 1..Len(Stages)}
    \cup {[runId |-> r, state |-> Stages[i], input |-> [rowCount |-> 0, page |-> "default"]] :
            r \in {"r1", "r0"}, i \in 1..Len(Stages)}

MergeStores ==
    {<<>>} \cup {("results/campaign/default/2026/01/01/r1/status.json" :> rec) : rec \in MergeRecords}

MergeInit ==
    /\ env \in Envs
    /\ wallDay = 1
    /\ starts = 0
    /\ regens = 0
    /\ engine \in MergeEngines
    /\ orch = <<>>
    /\ task = <<>>
    /\ store \in MergeStores
    /\ ~Falsy(store) => _get_container_client_ok(env)
    /\ response = None

\* GET campaign/status as function_app answers it
CampaignStatus(run_id) ==
    /\ response' = [handler |-> "campaign_status", req |-> run_id] @@ campaign_status(run_id)
    /\ UNCHANGED <<env, wallDay, starts, regens, engine, orch, task, store>>

MergeNext ==
    \/ \E run_id \in StatusIds : Status(run_id)
    \/ \E run_id \in StatusIds : CampaignStatus(run_id)

MergeSpec == MergeInit /\ [][MergeNext]_vars

\* ------------------------------- regeneration orchestration (design 4.4)
\* RegenerateSectionOrchestration is started by regenerate() and defined in
\* none of the modules function_app loads; it is taken from the design: it
\* finds the run's campaign artifact, regenerates the targeted section and
\* overwrites that section's slice of the artifact
SectionKey(section) ==
    CASE section = "landing"  -> "landing_page"
      [] section = "emails"   -> "emails"
      [] section = "sales"    -> "sales_enablement"
      [] section = "overview" -> "executive_summary"

regenerated_section(section) ==
    CASE section = "landing"  -> [headline |-> "Regenerated landing page",
                                  cta |-> "Book a discovery call"]
      [] section = "emails"   -> <<[subject |-> "Regenerated email"]>>
      [] section = "sales"    -> [one_pager |-> "Regenerated one-pager"]
      [] section = "overview" -> "Regenerated executive summary"

\* faulty variant: the artifact is uploaded anew with the one section in it
overwrite_whole(s, blob_path, section) ==
    _upload_json(s, blob_path, (SectionKey(section) :> regenerated_section(section)))

\* the single-section overwrite
overwrite_section(s, blob_path, section) ==
    [s EXCEPT ![blob_path] =
        [@ EXCEPT ![SectionKey(section)] = regenerated_section(section)]]

RegenerateSectionOrchestration(id) ==
    /\ id \in DOMAIN engine
    /\ engine[id].name = "RegenerateSectionOrchestration"
    /\ engine[id].runtimeStatus = "Pending"
    /\ LET input == engine[id].input
           chosen == Chosen(store, input.runId, "campaign.json")
       IN  IF ~_get_container_client_ok(env) \/ Falsy(chosen)
           THEN /\ engine' = [engine EXCEPT
                       ![id].runtimeStatus = "Failed",
                       ![id].output = "Orchestrator function 'RegenerateSectionOrchestration' failed"]
                /\ store' = store
           ELSE /\ store' = overwrite_section(store, chosen, input.section)
                /\ engine' = [engine EXCEPT
                       ![id].runtimeStatus = "Completed",
                       ![id].output = [ok |-> TRUE]]
    /\ UNCHANGED <<env, wallDay, starts, regens, orch, task, response>>

\* a run and the regenerations of its sections, storage configured
RegenInit ==
    /\ Init
    /\ _get_container_client_ok(env)

RegenNext ==
    \/ \E body \in StartBodies : Start(body)
    \/ \E body \in RegenBodies : Regenerate(body)
    \/ \E id \in DOMAIN engine : OrchestratorStart(id)
    \/ \E id \in DOMAIN engine : OrchestratorResume(id)
    \/ \E id \in DOMAIN engine : ActivityStep(id)
    \/ \E id \in DOMAIN engine : Redeliver(id)
    \/ \E id \in DOMAIN engine : RegenerateSectionOrchestration(id)

RegenSpec == RegenInit /\ [][RegenNext]_vars

\* -------------------------------------------------------------------- fetch
mapping ==
    [campaign |-> "campaign.json", evidence |-> "evidence_log.json",
     status |-> "status.json", json |-> "campaign.json"]

\* GET campaign/fetch?runId=..&file=..; data is the blob as it was read
fetch(run_id, file) ==
    LET kind == lower(strip(IF Falsy(file) THEN "campaign" ELSE file))
    IN  IF Falsy(run_id)
        THEN [status_code |-> 400, body |-> [text |-> "Missing runId"]]
        ELSE IF kind \notin DOMAIN mapping
        THEN [status_code |-> 400,
              body |-> [text |-> "Invalid file param. Use campaign|evidence|status."]]
        ELSE IF ~_blob_service_ok(env)
        THEN [status_code |-> 500, body |-> [text |-> "Missing environment variable"]]
        ELSE LET chosen == Chosen(store, run_id, mapping[kind])
             IN  IF Falsy(chosen)
                 THEN [status_code |-> 404, body |-> [text |-> "Not found"]]
                 ELSE [status_code |-> 200, body |-> [data |-> store[chosen]]]

\* the log records the handler emits while it answers: fetch, like status
\* and _find_blob_path, breaks at the first match and has no logging call
fetch_log(run_id, file) == <<>>

\* values of the file parameter; "" is falsy like an absent parameter
FetchFiles == {"", "evidence", "status", " Campaign", "bogus"}

Fetch(run_id, file) ==
    /\ response' = [handler |-> "fetch", req |-> [runId |-> run_id, file |-> file]]
                       @@ fetch(run_id, file)
    /\ UNCHANGED <<env, wallDay, starts, regens, engine, orch, task, store>>

\* ------------------------------------- a run id that is started more than once
RestartBodies ==
    {[runId |-> "r1", page |-> "a", rowCount |-> 120],
     [runId |-> "r1", page |-> "b", rowCount |-> 5]}

Restart(body) ==
    /\ campaign_start(body, MaxRuns)
    /\ UNCHANGED <<env, wallDay, store>>

RestartInit ==
    /\ Init
    /\ _get_container_client_ok(env)

RestartNext ==
    \/ \E body \in RestartBodies : Restart(body)
    \/ \E run_id \in {""} \cup RequestedRunIds, file \in FetchFiles : Fetch(run_id, file)
    \/ \E id \in DOMAIN engine : OrchestratorStart(id)
    \/ \E id \in DOMAIN engine : OrchestratorResume(id)
    \/ \E id \in DOMAIN engine : ActivityStep(id)

RestartSpec == RestartInit /\ [][RestartNext]_vars

\* ------------------------------------------------ runs with different ids
\* the third body's prefix lies under the second's on day 1; the fourth
\* asks for an id that would give the third's prefix
RunsBodies ==
    {[runId |-> "r1", page |-> "p"],
     [runId |-> "r2", page |-> "p"],
     [runId |-> "r1", page |-> "p/2026/01/01/r2"],
     [runId |-> "r2/2026/01/01/r1", page |-> "p"]}

Run(body) ==
    /\ campaign_start(body, MaxRuns)
    /\ UNCHANGED <<env, wallDay, store>>

RunsInit ==
    /\ Init
    /\ _get_container_client_ok(env)

RunsNext ==
    \/ \E body \in RunsBodies : Run(body)
    \/ \E id \in DOMAIN engine : OrchestratorStart(id)
    \/ \E id \in DOMAIN engine : OrchestratorResume(id)
    \/ \E id \in DOMAIN engine : ActivityStep(id)

RunsSpec == RunsInit /\ [][RunsNext]_vars

\* ------------------------------------------------ the content of the input
\* POST orchestrators/CampaignOrchestration: get_json is no coroutine, so
\* "await req.get_json()" raises in every case and body is None
http_start_v2 ==
    /\ starts < MaxStarts
    /\ starts' = starts + 1
    /\ regens' = regens
    /\ start_new("CampaignOrchestration", NewGuid, None)
    /\ response' = [handler |-> "http_start_v2", req |-> None, status_code |-> 202,
                    body |-> [id |-> NewGuid]]

HttpStart ==
    /\ http_start_v2
    /\ UNCHANGED <<env, wallDay, store>>

\* Start payloads that differ in content only
InputBodies ==
    {[page |-> ""],
     [rowCount |-> 0],
     [rowCount_str |-> " 7"],
     [rowCount_str |-> ""],
     [rowCount_str |-> "abc"],
     [page |-> "connectivity", filters |-> "segment=a"]}

InputInit ==
    /\ Init
    /\ _get_container_client_ok(env)

InputNext ==
    \/ \E body \in InputBodies : Start(body)
    \/ HttpStart
    \/ \E id \in DOMAIN engine : OrchestratorStart(id)
    \/ \E id \in DOMAIN engine : OrchestratorResume(id)
    \/ \E id \in DOMAIN engine : ActivityStep(id)

InputSpec == InputInit /\ [][InputNext]_vars

\* ------------------------------- runs and regenerations under chosen ids
\* the second body asks for the id regenerate() builds for (r1, landing);
\* the runs are followed up to the return of their first activity
CollideBodies ==
    {[runId |-> "r1"],
     [runId |-> "r1-regen-landing"]}

CollideRegenBodies == {[runId |-> "r1", section |-> "landing"]}

CollideStart(body) ==
    /\ campaign_start(body, MaxRuns)
    /\ UNCHANGED <<env, wallDay, store>>

CollideInit ==
    /\ Init
    /\ _get_container_client_ok(env)

CollideNext ==
    \/ \E body \in CollideBodies : CollideStart(body)
    \/ \E body \in CollideRegenBodies : Regenerate(body)
    \/ \E id \in DOMAIN engine : OrchestratorStart(id)
    \/ \E id \in DOMAIN engine : ActivityStep(id)
    \/ \E id \in DOMAIN engine : RegenerateSectionOrchestration(id)

CollideSpec == CollideInit /\ [][CollideNext]_vars

\* ----------------------------------------------------------------- download
\* the rows _add_evidence_table adds: five columns, the excerpt is left out
evidence_rows(evidence) ==
    [i \in 1..Len(evidence) |->
        <<evidence[i].id, evidence[i].publisher, evidence[i].title,
          evidence[i].date, evidence[i].url>>]

\* the document download composes from the campaign artifact and the
\* evidence list, part by part in the order it adds them
Document(run_id, c, evidence) ==
    [title |-> "Campaign " \o run_id,
     run |-> "Run ID: " \o run_id,
     executive_summary |-> c.executive_summary,
     headline |-> c.landing_page.headline,
     cta |-> c.landing_page.cta,
     emails |-> [i \in 1..Len(c.emails) |->
                    "Email " \o ToString(i) \o ": " \o c.emails[i].subject],
     one_pager |-> c.sales_enablement.one_pager,
     evidence |-> evidence_rows(evidence),
     input_proof |-> c.input_proof]

\* GET campaign/download?runId=..: campaign.json is required, the evidence
\* list is optional
download(run_id) ==
    IF Falsy(run_id)
    THEN [status_code |-> 400, body |-> [text |-> "Missing runId"]]
    ELSE IF ~_blob_service_ok(env)
    THEN [status_code |-> 500, body |-> [text |-> "Missing environment variable"]]
    ELSE LET path_campaign == Chosen(store, run_id, "campaign.json")
             path_evidence == Chosen(store, run_id, "evidence_log.json")
         IN  IF Falsy(path_campaign)
             THEN [status_code |-> 404, body |-> [text |-> "campaign.json not found"]]
             ELSE [status_code |-> 200,
                   body |-> [filename |-> "campaign-" \o run_id \o ".docx",
                             doc |-> Document(run_id, store[path_campaign],
                                              IF Falsy(path_evidence) THEN <<>>
                                              ELSE store[path_evidence])]]

\* faulty variant: the composed document is kept in the container
Download_caches(run_id) ==
    /\ response' = [handler |-> "download", req |-> run_id] @@ download(run_id)
    /\ store' = IF download(run_id).status_code = 200
                THEN _upload_json(store, "results/export/" \o run_id \o ".docx",
                                  download(run_id).body.doc)
                ELSE store
    /\ UNCHANGED <<env, wallDay, starts, regens, engine, orch, task>>

Download(run_id) ==
    /\ response' = [handler |-> "download", req |-> run_id] @@ download(run_id)
    /\ UNCHANGED <<env, wallDay, starts, regens, engine, orch, task, store>>

\* ------------------------------------------- a run and the three readers
ReadIds == {"", "nope"} \cup RequestedRunIds

ReadFiles == {"", "evidence", "bogus"}

ReadNext ==
    \/ \E body \in StartBodies : Start(body)
    \/ \E run_id \in ReadIds : Status(run_id)
    \/ \E run_id \in ReadIds, file \in ReadFiles : Fetch(run_id, file)
    \/ \E run_id \in ReadIds : Download(run_id)
    \/ \E id \in DOMAIN engine : OrchestratorStart(id)
    \/ \E id \in DOMAIN engine : OrchestratorResume(id)
    \/ \E id \in DOMAIN engine : OrchestratorFail(id)
    \/ \E id \in DOMAIN engine : ActivityStep(id)

ReadSpec == Init /\ [][ReadNext]_vars

\* ================================================================== claims
Rank(stage) == CHOOSE i \in 1..Len(Stages) : Stages[i] = stage

IsStage(stage) == \E i \in 1..Len(Stages) : Stages[i] = stage

\* the Stage Record the status handler finds for an id (None when none)
StageRecord(id) == Chosen(store, id, "status.json")

StatusBlobs == {n \in DOMAIN store : endswith(n, "/status.json")}

Answered(handler) == ~Falsy(response) /\ response.handler = handler

PolledOK == Answered("status") /\ response.status_code = 200

Started(id) == id \in DOMAIN engine /\ _get_container_client_ok(env)

HasResult(body) == \E k \in {"result", "output"} : k \in DOMAIN body /\ ~Falsy(body[k])

EngineHasResult(id) ==
    /\ campaign_status(id).status_code = 200
    /\ campaign_status(id).body.runtimeStatus = "Completed"
    /\ ~Falsy(campaign_status(id).body.output.result)

C2_LedgerNeverMovesBack ==
    [][\A n \in StatusBlobs : Rank(store'[n].state) >= Rank(store[n].state)]_vars

\* C3: two successive answers of status for the same run never show a stage
\* earlier than the one shown before
C3_PollerNeverSeesEarlier ==
    [][(/\ PolledOK
        /\ PolledOK'
        /\ response'.req = response.req
        /\ IsStage(response.body.state)
        /\ IsStage(response'.body.state))
       => Rank(response'.body.state) >= Rank(response.body.state)]_vars

\* C4: status for an id with neither a substrate record nor a Stage Record
\* answers 404
C4_UnknownRunNotFound ==
    (/\ Answered("status")
     /\ ~Falsy(response.req)
     /\ response.req \notin DOMAIN engine
     /\ Falsy(StageRecord(response.req)))
    => response.status_code = 404

C6_ViewCarriesRunId ==
    \A id \in StatusIds \ {""} :
        /\ "runId" \in DOMAIN status(id).body
        /\ (Falsy(StageRecord(id)) \/ "runId" \notin DOMAIN store[StageRecord(id)])
              => status(id).body.runId = id

C6_Witness ==
    /\ PolledOK
    /\ ~Falsy(StageRecord(response.req))
    /\ "runId" \notin DOMAIN store[StageRecord(response.req)]
    /\ response.body.runId = response.req

\* the map the claim names
C7Map(rs) ==
    CASE rs = "Pending" -> "ValidatingInput"
      [] rs = "Running" -> "DraftCampaign"
      [] rs = "Completed" -> "Completed"
      [] rs \in {"Failed", "Terminated"} -> "Failed"

\* C7: when an instance has no Stage Record, the stage status reports is the
\* image of its runtimeStatus under the fixed map
C7_GuessFollowsMap ==
    \A id \in DOMAIN engine :
        Falsy(StageRecord(id)) => status(id).body.state = C7Map(engine[id].runtimeStatus)

C7_Witness ==
    /\ PolledOK
    /\ response.req \in DOMAIN engine
    /\ engine[response.req].name = "CampaignOrchestration"
    /\ Falsy(StageRecord(response.req))
    /\ response.body.runtime.runtimeStatus = "Terminated"
    /\ response.body.state = "Failed"

\* C8: when an activity has run to its end, for the first time or again with
\* the same input, the blobs under the run's prefix are those its first
\* complete execution left
C8_ReexecutionLeavesSameBlobs ==
    \A id \in DOMAIN task :
        (~Falsy(task[id]) /\ task[id].st = "done")
            => Under(store, task[id].input.prefix) = task[id].firstDone

RegenAccepted == Answered("regenerate") /\ "instance_id" \in DOMAIN response

\* C9 as stated: the instance id of an accepted regenerate request is the
\* request's runId followed by "-regen-" followed by its section
C9_RegenIdFromRequest ==
    RegenAccepted
        => response.instance_id = response.req.runId \o "-regen-" \o response.req.section

\* C9 amended: the instance id of an accepted regenerate request is the
\* trimmed runId followed by "-regen-" followed by the trimmed, lower-cased
\* section, so equal requests get equal ids; it is the id the instance runs
\* under
C9_RegenIdFromNormalised ==
    /\ RegenAccepted
          => /\ response.instance_id =
                    strip(response.req.runId) \o "-regen-" \o lower(strip(response.req.section))
             /\ response.instance_id \in DOMAIN engine
             /\ engine[response.instance_id].name = "RegenerateSectionOrchestration"
    /\ \A id \in DOMAIN engine :
          engine[id].name = "RegenerateSectionOrchestration"
              => id = engine[id].input.runId \o "-regen-" \o engine[id].input.section

C9_Witness ==
    /\ RegenAccepted
    /\ regens = 2
    /\ response.req.runId = " r1"
    /\ response.instance_id = "r1-regen-landing"
    /\ {id \in DOMAIN engine : engine[id].name = "RegenerateSectionOrchestration"}
           = {"r1-regen-landing"}

\* a regenerate request was answered in this step
RegenAnswered ==
    /\ Answered("regenerate")'
    /\ (Falsy(response) \/ response.handler # "regenerate" \/ response' # response)

RegenRejectedUntouched ==
    /\ "status_code" \in DOMAIN response'
    /\ response'.status_code = 400
    /\ UNCHANGED <<starts, regens, engine, orch, task, store>>

\* C10 as stated: a regenerate request with an empty runId or a section
\* outside the four names is answered 400 and changes nothing
C10_RawInvalidRejected ==
    [][(/\ RegenAnswered
        /\ (response'.req.runId = "" \/ response'.req.section \notin allowed))
       => RegenRejectedUntouched]_vars

\* C10 amended: a regenerate request whose runId is empty after trimming,
\* or whose section is outside the four names after trimming and
\* lower-casing, is answered 400 and changes no instance, ledger or artifact
C10_NormalisedInvalidRejected ==
    [][(/\ RegenAnswered
        /\ (strip(response'.req.runId) = ""
              \/ lower(strip(response'.req.section)) \notin allowed))
       => RegenRejectedUntouched]_vars

C10_Witness ==
    /\ Answered("regenerate")
    /\ "status_code" \in DOMAIN response
    /\ response.status_code = 400
    /\ response.req.section = "bogus"
    /\ regens = 1

IsRegen(id) == id \in DOMAIN engine /\ engine[id].name = "RegenerateSectionOrchestration"

\* the regeneration instances in flight for a (run_id, section) pair
LiveRegens(run_id, section) ==
    {id \in DOMAIN engine :
        /\ IsRegen(id)
        /\ InFlight(id)
        /\ engine[id].input.runId = run_id
        /\ engine[id].input.section = section}

RegenPairs ==
    {<<engine[id].input.runId, engine[id].input.section>> : id \in {i \in DOMAIN engine : IsRegen(i)}}

\* C11: a (run_id, section) pair never has two regeneration instances in
\* flight, and while it has one no step brings an instance with another id
\* into flight for it
C11_OneLiveRegenPerPair ==
    [][/\ \A p \in RegenPairs' : Cardinality(LiveRegens(p[1], p[2])') <= 1
       /\ \A p \in RegenPairs :
             LiveRegens(p[1], p[2]) # {} => LiveRegens(p[1], p[2])' \subseteq LiveRegens(p[1], p[2])]_vars

C11_Witness ==
    /\ Answered("regenerate")
    /\ "status_code" \in DOMAIN response
    /\ response.status_code = 500
    /\ regens = 2
    /\ LiveRegens("r1", "landing") = {"r1-regen-landing"}

\* the regeneration instance id runs its one episode in this step
RegenStep(id) ==
    /\ IsRegen(id)
    /\ engine[id].runtimeStatus = "Pending"
    /\ engine'[id].runtimeStatus \in {"Completed", "Failed"}

\* C12: once a regeneration has been requested for a run, a Stage Record of
\* that run that says Completed says Completed after every step
C12_CompletedStaysUnderRegen ==
    [][\A n \in StatusBlobs :
          (/\ store[n].state = "Completed"
           /\ \E id \in DOMAIN engine : IsRegen(id) /\ engine[id].input.runId = store[n].runId)
          => store'[n].state = "Completed"]_vars

\* C13: the episode of a regeneration of section s leaves every blob but the
\* run's campaign artifact as it is, and in that artifact every key but the
\* one of s: the other sections, evidence_log and input_proof
C13_RegenWritesOnlyItsSlice ==
    [][\A id \in DOMAIN engine :
          RegenStep(id) =>
             /\ DOMAIN store' = DOMAIN store
             /\ \A n \in DOMAIN store :
                   IF Chosen(store, engine[id].input.runId, "campaign.json") = n
                   THEN \A k \in DOMAIN store[n] \ {SectionKey(engine[id].input.section)} :
                           k \in DOMAIN store'[n] /\ store'[n][k] = store[n][k]
                   ELSE store'[n] = store[n]]_vars

C13_Witness ==
    /\ IsRegen("r1-regen-landing")
    /\ engine["r1-regen-landing"].runtimeStatus = "Completed"
    /\ ~Falsy(Chosen(store, "r1", "campaign.json"))
    /\ store[Chosen(store, "r1", "campaign.json")].landing_page = regenerated_section("landing")
    /\ store[Chosen(store, "r1", "campaign.json")].input_proof.run_id = "r1"
    /\ ~Falsy(task["r1"])
    /\ task["r1"].name = "campaign_draft_activity"
    /\ task["r1"].attempts = 1
    /\ task["r1"].st = "done"

\* the stage GetStatus reports for an id
StageOf(id) == status(id).body.state

\* C14: in every state in which a run has not reached the Completed stage,
\* fetch of its campaign artifact answers 404
C14_NoCampaignBeforeCompleted ==
    \A id \in DOMAIN engine :
        StageOf(id) # "Completed" => fetch(id, "campaign").status_code = 404

\* the input_proof validate_input_activity returns for the run id
ValidatedProof(id) ==
    ActivityReturn("validate_input_activity", CallInput(1, Locals(id), None), 0).input_proof

\* C15: when a run started with rowCount n has completed, fetch of its
\* campaign artifact answers an artifact whose input_proof has the run's id
\* and n, and is the input_proof validate_input_activity returned
C15_FetchedProofIsTheRuns ==
    \A id \in DOMAIN engine :
        engine[id].runtimeStatus = "Completed"
            => /\ fetch(id, "campaign").status_code = 200
               /\ fetch(id, "campaign").body.data.input_proof.run_id = id
               /\ fetch(id, "campaign").body.data.input_proof.row_count = engine[id].input.rowCount
               /\ fetch(id, "campaign").body.data.input_proof = ValidatedProof(id)

PrefixOf(n) == SubSeq(n, 1, Len(n) - Len("status.json"))

\* C20: no step changes the Stage Record or an artifact of a run whose
\* Stage Record says Completed or whose orchestration has ended Failed
C20_TerminalRunImmutable ==
    [][/\ \A n \in StatusBlobs :
             store[n].state = "Completed"
                 => Under(store', PrefixOf(n)) = Under(store, PrefixOf(n))
       /\ \A id \in DOMAIN engine :
             engine[id].runtimeStatus = "Failed"
                 => Under(store', Locals(id).prefix) = Under(store, Locals(id).prefix)]_vars

\* a Start request creates the instance id anew in this step
Recreated(id) == engine'[id].runtimeStatus = "Pending" /\ orch'[id].pc = 0

\* C16: an activity that raised stays as it is until the orchestration ends
\* Failed with no work item outstanding, and an orchestration that ended
\* Failed never changes and gets no work item again (short of a new Start
\* request for its id)
C16_FailureEndsTheRun ==
    [][\A id \in DOMAIN engine :
          \/ Recreated(id)
          \/ /\ (~Falsy(task[id]) /\ task[id].st = "failed")
                    => \/ Falsy(task'[id]) /\ engine'[id].runtimeStatus = "Failed"
                       \/ ~Falsy(task'[id]) /\ task'[id] = task[id]
             /\ engine[id].runtimeStatus = "Failed"
                    => /\ engine'[id] = engine[id]
                       /\ orch'[id] = orch[id]
                       /\ Falsy(task'[id])]_vars

C16_Witness ==
    /\ "r1" \in DOMAIN engine
    /\ engine["r1"].runtimeStatus = "Failed"
    /\ orch["r1"].pc = 2
    /\ Falsy(task["r1"])
    /\ ~Falsy(StageRecord("r1"))
    /\ store[StageRecord("r1")].state = "EvidenceBuilder"
    /\ Falsy(Chosen(store, "r1", "campaign.json"))

\* C17: the orchestration issues its calls one at a time in the order
\* validate_input, evidence_builder, campaign_draft, validator: the count
\* of issued calls grows by one, only when no call is outstanding or the
\* outstanding one has returned, and the outstanding work item is always
\* the call the count stands at
C17_CallsInOrderOnce ==
    [][\A id \in DOMAIN engine :
          \/ Recreated(id)
          \/ /\ orch'[id].pc # orch[id].pc
                    => /\ orch'[id].pc = orch[id].pc + 1
                       /\ \/ orch[id].pc = 0 /\ Falsy(task[id])
                          \/ ~Falsy(task[id]) /\ task[id].st = "done"
             /\ ~Falsy(task'[id])
                    => /\ orch'[id].pc \in 1..4
                       /\ task'[id].name = ActivityNames[orch'[id].pc]
                       /\ (orch'[id].pc = orch[id].pc => task'[id].input = task[id].input)]_vars

C17_Witness ==
    /\ "r1" \in DOMAIN task
    /\ ~Falsy(task["r1"])
    /\ task["r1"].name = "validator_activity"
    /\ task["r1"].attempts = 1
    /\ task["r1"].st = "done"
    /\ orch["r1"].pc = 4

\* C19: once the substrate has terminated a run, no step makes the run's
\* Stage Record say Completed
C19_TerminatedNeverCompletes ==
    [][\A id \in DOMAIN engine :
          engine[id].runtimeStatus = "Terminated"
              => \A n \in StatusBlobs :
                    (store[n].runId = id /\ store'[n].state = "Completed")
                        => store[n].state = "Completed"]_vars

\* the ledger and artifact keys of a run whose orchestration has begun
RunKeys(id) ==
    {_status_blob_path(Locals(id).prefix),
     _evidence_blob_path(Locals(id).prefix),
     _campaign_blob_path(Locals(id).prefix)}

Begun(id) == id \in DOMAIN orch /\ orch[id].pc >= 1

\* an activity of the run performs a write in this step
Wrote(id) ==
    /\ ~Falsy(task[id])
    /\ ~Falsy(task'[id])
    /\ task'[id].apc = task[id].apc + 1

FetchKinds == {"campaign", "evidence", "status"}

\* C21: a fetch whose suffix scan matches more than one stored path emits a
\* log record about the ambiguity, and one whose scan matches none answers
\* not-found
C21_AmbiguousLookupReported ==
    \A run_id \in RequestedRunIds, file \in FetchKinds :
        /\ Cardinality(Matches(store, run_id, mapping[file])) > 1
               => Len(fetch_log(run_id, file)) > 0
        /\ Matches(store, run_id, mapping[file]) = {}
               => fetch(run_id, file).status_code = 404

IsCampaign(id) == id \in DOMAIN engine /\ engine[id].name = "CampaignOrchestration"

\* the blob of that name is among the ones a lookup by the id matches
FoundUnder(id, blob_path, filename) ==
    /\ blob_path \in DOMAIN store
    /\ blob_path \in Matches(store, id, filename)

ResultOf(id) ==
    IF engine[id].runtimeStatus = "Failed" \/ Falsy(campaign_status(id).body.output)
    THEN None
    ELSE campaign_status(id).body.output.result

\* the stage in the Stage Record the run keeps under its own prefix
OwnStage(id) ==
    IF orch[id].pc >= 1 /\ _status_blob_path(Locals(id).prefix) \in DOMAIN store
    THEN store[_status_blob_path(Locals(id).prefix)].state
    ELSE "none"

C24_InputContentNeverFails ==
    /\ Answered("campaign_start") => response.status_code = 200
    /\ \A id \in DOMAIN engine :
           IsCampaign(id) => ~(engine[id].runtimeStatus = "Failed" /\ orch[id].pc <= 1)

MissingSetting == env.UPLOADS_SAS_URL = "" \/ env.CAMPAIGN_RESULTS_CONTAINER = ""

ConfigErrors ==
    {"RuntimeError: UPLOADS_SAS_URL is not set",
     "RuntimeError: CAMPAIGN_RESULTS_CONTAINER is not set"}

IsConfigFailure(text) == \E e \in ConfigErrors : endswith(text, e)

\* C25: with a storage setting missing nothing is ever written, no run
\* gets past its first activity or completes, an executed activity has
\* failed with the setting's error, and a Failed run's failure text names
\* the missing setting; with both settings present no failure text does
C25_MissingSettingFailsAtBoundary ==
    \A id \in DOMAIN engine :
        IsCampaign(id) =>
            /\ MissingSetting =>
                   /\ DOMAIN store = {}
                   /\ orch[id].pc <= 1
                   /\ engine[id].runtimeStatus # "Completed"
                   /\ (~Falsy(task[id]) /\ task[id].st # "queued")
                          => /\ task[id].st = "failed"
                             /\ task[id].error \in ConfigErrors
                   /\ engine[id].runtimeStatus = "Failed"
                          => IsConfigFailure(engine[id].output)
            /\ (~MissingSetting /\ engine[id].runtimeStatus = "Failed")
                   => ~IsConfigFailure(engine[id].output)

C25_Witness ==
    /\ env.CAMPAIGN_RESULTS_CONTAINER = ""
    /\ IsCampaign("r1")
    /\ engine["r1"].runtimeStatus = "Failed"
    /\ IsConfigFailure(engine["r1"].output)
    /\ orch["r1"].pc = 1
    /\ DOMAIN store = {}

IsTask(id, name) == ~Falsy(task[id]) /\ task[id].name = name

\* C26: the draft call is issued with the evidence_log of the result the
\* evidence call returned, its input never changes afterwards, and the
\* campaign artifact it writes holds that evidence_log
C26_DraftGetsReturnedEvidence ==
    [][\A id \in DOMAIN engine :
          /\ (orch[id].pc = 2 /\ orch'[id].pc = 3)
                 => /\ IsTask(id, "evidence_builder_activity")
                    /\ task[id].st = "done"
                    /\ task'[id].name = "campaign_draft_activity"
                    /\ task'[id].input.evidence_log = task[id].result.evidence_log
          /\ (IsTask(id, "campaign_draft_activity") /\ ~Falsy(task'[id])
                  /\ task'[id].name = "campaign_draft_activity")
                 => task'[id].input = task[id].input
          /\ (IsTask(id, "campaign_draft_activity") /\ Wrote(id) /\ task'[id].apc = 2)
                 => store'[_campaign_blob_path(task[id].input.prefix)].evidence_log
                        = task[id].input.evidence_log]_vars

\* the evidence was built a day after the run began, and the artifact holds it
C26_Witness ==
    /\ IsCampaign("r1")
    /\ orch["r1"].now = 1
    /\ orch["r1"].pc >= 3
    /\ orch["r1"].evidence = [evidence_log |-> evidence_log(2)]
    /\ _campaign_blob_path(Locals("r1").prefix) \in DOMAIN store
    /\ store[_campaign_blob_path(Locals("r1").prefix)].evidence_log = evidence_log(2)

EvidenceBlobs == {n \in DOMAIN store : endswith(n, "/evidence_log.json")}

\* the prefix an evidence blob lies under
PrefixOfEvidence(n) == SubSeq(n, 1, Len(n) - Len("evidence_log.json"))

\* C27: an evidence artifact whose run has gone on to write its campaign
\* artifact (so evidence_builder had returned) equals the evidence_log
\* embedded in that artifact, and no step changes its content
C27_EvidenceImmutable ==
    [][\A n \in EvidenceBlobs :
          _campaign_blob_path(PrefixOfEvidence(n)) \in DOMAIN store
              => /\ store[_campaign_blob_path(PrefixOfEvidence(n))].evidence_log = store[n]
                 /\ store'[n] = store[n]]_vars

\* C28: every call of a run carries the run's instance id and the prefix
\* made of that id, the input page and the time of the first episode, and
\* the prefix of the outstanding call never differs from the one before
C28_OnePrefixPerRun ==
    [][\A id \in DOMAIN engine :
          ~Falsy(task'[id]) =>
              /\ task'[id].input.run_id = id
              /\ task'[id].input.prefix
                     = OrchestrationLocals(id, engine'[id].input, orch'[id].now).prefix
              /\ ~Falsy(task[id])
                     => /\ task'[id].input.prefix = task[id].input.prefix
                        /\ orch'[id].now = orch[id].now]_vars

\* the last call is issued on the day after the run began
C28_Witness ==
    /\ IsCampaign("r1")
    /\ IsTask("r1", "validator_activity")
    /\ task["r1"].apc = 0
    /\ wallDay = 2
    /\ orch["r1"].now = 1
    /\ task["r1"].input.prefix = "results/campaign/default/2026/01/01/r1/"

\* what an execution of the orchestration body does in the current state,
\* given the instance's id, input, context time and recorded evidence
\* result: the four calls it issues, the custom status it sets and the
\* value it returns for a validator result of {ok: true}
Replay(id) ==
    [calls |-> [k \in 1..4 |->
                   [name |-> ActivityNames[k],
                    input |-> CallInput(k, Locals(id), orch[id].evidence)]],
     custom |-> TerminalCustomStatus(Locals(id)),
     return |-> OrchestrationOutput(Locals(id), [ok |-> TRUE])]

\* the step leaves the instance's recorded history as it is
SameHistory(id) ==
    /\ orch[id].pc >= 1
    /\ orch'[id].pc = orch[id].pc
    /\ orch'[id].now = orch[id].now
    /\ engine'[id].input = engine[id].input

C30_TerminalStatusAfterAllFour ==
    [][\A id \in DOMAIN engine :
          IsCampaign(id) =>
              /\ (Falsy(engine[id].customStatus) /\ ~Falsy(engine'[id].customStatus))
                     => /\ orch[id].pc = 4
                        /\ IsTask(id, "validator_activity")
                        /\ task[id].st = "done"
                        /\ engine'[id].customStatus = [state |-> "Completed", runId |-> id]
                        /\ engine'[id].runtimeStatus = "Completed"
                        /\ engine'[id].output = [runId |-> id,
                                                 prefix |-> task[id].input.prefix,
                                                 result |-> task[id].result]
              /\ (engine'[id].runtimeStatus = "Completed")
                     = ~Falsy(engine'[id].customStatus)]_vars

C30_Witness ==
    /\ IsCampaign("auto1")
    /\ engine["auto1"].customStatus = [state |-> "Completed", runId |-> "auto1"]
    /\ engine["auto1"].output.result = [ok |-> TRUE]
    /\ engine["auto1"].output.prefix = "results/campaign/connectivity/2026/01/02/auto1/"

\* the Stage Record the outstanding call of a run writes to
CallRecord(id) == _status_blob_path(task[id].input.prefix)

\* C31: validator_activity's first write leaves QualityGate in the Stage
\* Record, its second write replaces QualityGate by Completed and is
\* followed by its return, and in every state where its result is ready
\* for the orchestration, and in the step that delivers it, the Stage
\* Record says Completed
C31_ValidatorWritesBothBeforeReturn ==
    [][\A id \in DOMAIN engine :
          IsTask(id, "validator_activity") =>
              /\ (Wrote(id) /\ task'[id].apc = 1)
                     => /\ store'[CallRecord(id)].state = "QualityGate"
                        /\ task'[id].st = "queued"
              /\ (Wrote(id) /\ task'[id].apc = 2)
                     => /\ store[CallRecord(id)].state = "QualityGate"
                        /\ store'[CallRecord(id)].state = "Completed"
                        /\ task'[id].st = "done"
              /\ task[id].st = "done"
                     => /\ task[id].apc = 2
                        /\ store[CallRecord(id)].state = "Completed"
              /\ orch'[id].pc = 5
                     => /\ task[id].st = "done"
                        /\ store'[CallRecord(id)].state = "Completed"]_vars

\* the validator ran twice and its result is about to be delivered
C31_Witness ==
    /\ IsCampaign("r1")
    /\ IsTask("r1", "validator_activity")
    /\ task["r1"].st = "done"
    /\ task["r1"].attempts = 1
    /\ OwnStage("r1") = "Completed"

\* the stage the k-th blob write of an activity leaves in the Stage Record:
\* every activity writes its stage first, the validator Completed second
StageWritten(name, k) ==
    CASE name = "validate_input_activity"   -> "ValidatingInput"
      [] name = "evidence_builder_activity" -> "EvidenceBuilder"
      [] name = "campaign_draft_activity"   -> "DraftCampaign"
      [] name = "validator_activity"        -> IF k = 1 THEN "QualityGate" ELSE "Completed"

\* the activity of the run's outstanding call has begun and not returned
Executing(id) ==
    /\ ~Falsy(task[id])
    /\ task[id].st = "queued"
    /\ task[id].apc >= 1

\* C32 as stated: the stage in a run's Stage Record is never the stage of
\* an activity that is still executing
C32_RecordHoldsCompletedStage ==
    \A id \in DOMAIN engine :
        (IsCampaign(id) /\ Executing(id))
            => OwnStage(id) # StageWritten(task[id].name, task[id].apc)

\* C32 amended: all a run stores under its prefix is its one Stage Record
\* and its two artifacts, and once an activity of the run has written, the
\* record holds the stage that activity wrote last, while the activity is
\* executing as well as after it returned; it holds Completed when the
\* orchestration has returned
C32_RecordHoldsStageEntered ==
    \A id \in DOMAIN engine :
        (IsCampaign(id) /\ Begun(id)) =>
            /\ DOMAIN Under(store, Locals(id).prefix) \subseteq RunKeys(id)
            /\ (~Falsy(task[id]) /\ task[id].apc >= 1)
                   => OwnStage(id) = StageWritten(task[id].name, task[id].apc)
            /\ orch[id].pc = 5 => OwnStage(id) = "Completed"

\* the record says EvidenceBuilder and the evidence artifact is not written
C32_Witness ==
    /\ IsCampaign("r1")
    /\ IsTask("r1", "evidence_builder_activity")
    /\ Executing("r1")
    /\ OwnStage("r1") = "EvidenceBuilder"
    /\ _evidence_blob_path(Locals("r1").prefix) \notin DOMAIN store

\* a status handler answered for an id the substrate has no instance of,
\* while the store holds a Stage Record for the id
LedgerOnly ==
    /\ Answered("status") \/ Answered("campaign_status")
    /\ ~Falsy(response.req)
    /\ response.req \notin DOMAIN engine
    /\ ~Falsy(StageRecord(response.req))

\* C33: when the substrate has no instance for the id (or its query
\* failed) and a Stage Record exists, GET campaign/status answers 200 with
\* a view whose stage is the record's stage
C33_LedgerAnswersWithoutEngine ==
    LedgerOnly =>
        /\ response.status_code = 200
        /\ response.body.state = store[StageRecord(response.req)].state

\* C34: in every state in which a run's orchestration has ended Failed or
\* Terminated, status reports stage Failed for the run
C34_EndedRunReportsFailed ==
    \A id \in DOMAIN engine :
        (IsCampaign(id) /\ engine[id].runtimeStatus \in {"Failed", "Terminated"})
            => status(id).body.state = "Failed"

\* the id has the form regenerate() gives its instances
IsRegenId(id) ==
    \E section \in allowed :
        /\ Len(id) > Len(regen_id("", section))
        /\ endswith(id, regen_id("", section))

\* C35: no campaign run has an instance id of the form runId-regen-section,
\* and no Start or Regenerate request turns the instance under an id from a
\* campaign run into a regeneration or back
C35_RegenIdsApartFromRunIds ==
    [][/\ \A id \in DOMAIN engine' : IsCampaign(id)' => ~IsRegenId(id)
       /\ \A id \in DOMAIN engine : engine'[id].name = engine[id].name]_vars

\* C36: for every run id at most one stored path ends in
\* /<run_id>/status.json
C36_OneStageRecordPerRunId ==
    \A run_id \in DOMAIN engine : Cardinality(Matches(store, run_id, "status.json")) <= 1

EngineCompleted(id) ==
    \/ engine[id].runtimeStatus = "Completed"
    \/ /\ ~Falsy(engine[id].customStatus)
       /\ engine[id].customStatus.state = "Completed"

\* C38: in every state where the substrate shows a run as Completed, the
\* Stage Record the run wrote says Completed, and so does the Stage Record
\* status finds for the run id and the stage status reports
C38_SourcesAgreeAtCompleted ==
    \A id \in DOMAIN engine :
        (IsCampaign(id) /\ EngineCompleted(id))
            => /\ OwnStage(id) = "Completed"
               /\ ~Falsy(StageRecord(id))
               /\ store[StageRecord(id)].state = "Completed"
               /\ status(id).body.state = "Completed"

\* a read handler answers in this step
ReadAnswered ==
    /\ Answered("status")' \/ Answered("fetch")' \/ Answered("download")'
    /\ \/ Falsy(response)
       \/ ToString(response') # ToString(response)

\* C39: a step in which status, fetch or download answers leaves the
\* store (ledger and artifacts) and every orchestration instance, with its
\* history and its work item, as they were
C39_ReadersChangeNothing ==
    [][ReadAnswered => UNCHANGED <<store, engine, orch, task, starts, regens>>]_vars

\* download answered with the document of a completed run
C39_Witness ==
    /\ Answered("download")
    /\ response.status_code = 200
    /\ response.req = "r1"
    /\ Len(response.body.doc.evidence) = 2
    /\ engine["r1"].runtimeStatus = "Completed"
    /\ OwnStage("r1") = "Completed"

====
